---- MODULE Spec2Model ----
(***************************************************************************)
(* The feed pagination / download / entry-record pipeline of               *)
(* brightwheel_scraper.py (class BrightwheelScraper), as a state machine.  *)
(*                                                                         *)
(* One behaviour is a sequence of runs of the program over one archive     *)
(* root.  The archive (download_history.json, media files, per-entry       *)
(* record files, feed_index.json) persists from run to run; everything     *)
(* else is rebuilt by each run.  The environment decides whether a network *)
(* call succeeds, whether a file write succeeds and when the user          *)
(* interrupts (KeyboardInterrupt, delivered while the process is blocked   *)
(* in a network call or in time.sleep).                                    *)
(***************************************************************************)
EXTENDS Integers, Sequences, FiniteSets, TLC

(***************************************************************************)
(* Bounds of the model.                                                    *)
(***************************************************************************)
RunGap == 60          \* seconds from the start of one run to the next
MaxRuns == 2          \* runs of the program over the same archive root
MaxFaults == 1        \* environment faults (failures, interrupts) per behaviour
PageSize == 2         \* entries per feed page (the page_size the server echoes)
MaxPosters == 1       \* video posters with a background image in a markup page

HashMod == 10000      \* hash(...) % 10000
SleepSeconds == 2     \* time.sleep(2)
None == -1            \* Python None, where the other values are naturals

\* PYTHONHASHSEED values a process may start with (str hashes are keyed by it).
HashSeeds == {0, 1}
\* --max-pages values tried; None is --all.
MaxPagesArgs == {None, 1}

(***************************************************************************)
(* URLs.  urlparse(url).path is dir "/" basename; the basename is          *)
(* stem "." ext, or stem alone when ext = "" (no '.' in the last segment). *)
(***************************************************************************)
NoUrl == [dir |-> "", stem |-> "", ext |-> ""]
U1 == [dir |-> "cdn/p1", stem |-> "a", ext |-> "jpg"]
U2 == [dir |-> "cdn/p22", stem |-> "a", ext |-> "jpg"]
U3 == [dir |-> "cdn/p1", stem |-> "bb", ext |-> "jpg"]
UV == [dir |-> "cdn/v", stem |-> "clip", ext |-> ""]
UP == [dir |-> "cdn/s", stem |-> "playlist", ext |-> "m3u8"]

\* Raw event_date strings: a valid ISO timestamp (its minute and second), an
\* absent key, or text that datetime.fromisoformat rejects.
IsoDate(m, s) == [text |-> "iso", min |-> m, sec |-> s]
AbsentDate == [text |-> "absent", min |-> None, sec |-> None]
GarbageDate == [text |-> "garbage", min |-> None, sec |-> None]
\* A parsed datetime, or NoDate for Python None.
NoDate == [min |-> None, sec |-> None]

NoVideoInfo == [present |-> FALSE, streamable_url |-> NoUrl,
                downloadable_url |-> NoUrl, thumbnail_url |-> NoUrl]
VideoInfo(s, d, t) == [present |-> TRUE, streamable_url |-> s,
                       downloadable_url |-> d, thumbnail_url |-> t]
NoMedia == [image_url |-> NoUrl, thumbnail_url |-> NoUrl,
            video_thumbnail_url |-> NoUrl, video_url |-> NoUrl]
\* actor: "obj" a JSON object, "null" a JSON null, "missing" no such key; a
\* name is a string, "#null" or "#missing".
Actor(f, l) == [json |-> "obj", first_name |-> f, last_name |-> l]
NullActor == [json |-> "null", first_name |-> "#missing", last_name |-> "#missing"]
NoActor == [json |-> "missing", first_name |-> "#missing", last_name |-> "#missing"]

\* One raw activity of the JSON feed; object_id = None when the key is absent.
Activity(oid, date, actor, media, vinfo) ==
    [object_id |-> oid, event_date |-> date, actor |-> actor,
     media |-> media, video_info |-> vinfo]

(***************************************************************************)
(* The feeds the server holds.  Student 1 has three activities, student 2  *)
(* two; both feeds reference U1; A2 has no object_id; U2 has U1's basename *)
(* and A2 has A1's event minute; UV has no extension; B1's actor is null.  *)
(***************************************************************************)
Students == <<1, 2>>

A1 == Activity(9011, IsoDate(100, 5), Actor("Ann", "Lee"),
               [NoMedia EXCEPT !.image_url = U1], NoVideoInfo)
A2 == Activity(None, IsoDate(100, 5), Actor("Ann", "Lee"),
               [NoMedia EXCEPT !.image_url = U2], NoVideoInfo)
A3 == Activity(9013, IsoDate(200, 7), NoActor,
               [NoMedia EXCEPT !.thumbnail_url = U1],
               VideoInfo(UP, NoUrl, U3))
B1 == Activity(9021, IsoDate(100, 5), NullActor,
               NoMedia, VideoInfo(NoUrl, UV, NoUrl))
B2 == Activity(9022, GarbageDate, Actor("Bo", "#missing"),
               [NoMedia EXCEPT !.image_url = U1], NoVideoInfo)

Feed(s) == IF s = 1 THEN <<A1, A2, A3>> ELSE <<B1, B2>>

Min(a, b) == IF a < b THEN a ELSE b

\* The JSON body the server answers for page p of student s.
ServerPage(s, p) ==
    LET T == Len(Feed(s))
        lo == (p - 1) * PageSize + 1
        hi == Min(p * PageSize, T)
    IN [activities |-> IF lo > hi THEN <<>> ELSE SubSeq(Feed(s), lo, hi),
        count |-> T, page |-> p, page_size |-> PageSize, student |-> s]

(***************************************************************************)
(* get_feed, JSON branch: video_info is folded into media, has_more is     *)
(* computed from the body's count, page and page_size.                     *)
(***************************************************************************)
\* streamable_url.replace('playlist.m3u8', 'video.mp4')
ReplacePlaylist(u) ==
    IF u.stem = "playlist" /\ u.ext = "m3u8"
    THEN [u EXCEPT !.stem = "video", !.ext = "mp4"]
    ELSE u

\* The video URL chosen with the HLS stream first.
FoldVideoInfo_StreamFirst(activity) ==
    LET vi == activity.video_info
        video == IF vi.streamable_url # NoUrl THEN ReplacePlaylist(vi.streamable_url)
                 ELSE vi.downloadable_url
    IN [activity EXCEPT !.media.video_url = video,
                        !.media.video_thumbnail_url = vi.thumbnail_url]

\* Lines 419-457: video_info folded into the activity's media.
FoldVideoInfo(activity) ==
    LET vi == activity.video_info
        s == vi.streamable_url
        d == vi.downloadable_url
        t == vi.thumbnail_url
        video == IF d # NoUrl THEN d
                 ELSE IF s # NoUrl THEN ReplacePlaylist(s)
                 ELSE activity.media.video_url
        thumb == IF t # NoUrl THEN t ELSE activity.media.video_thumbnail_url
    IN IF vi.present /\ (s # NoUrl \/ d # NoUrl \/ t # NoUrl)
       THEN [activity EXCEPT !.media.video_url = video,
                             !.media.video_thumbnail_url = thumb]
       ELSE activity

\* has_more with >= for >.
HasMore_Geq(data) == data.count >= data.page * data.page_size

HasMore(data) == data.count > data.page * data.page_size

\* What get_feed returns for a JSON body: the keys 'entries' and 'has_more'.
\* The state holds an activity as a handle, its place in the server's feed;
\* EntryOf (below) gives the activity as get_feed hands it on, video_info
\* folded in.
GetFeedJson(data) ==
    [entries |-> [i \in 1..Len(data.activities) |->
                    [student |-> data.student,
                     k |-> (data.page - 1) * data.page_size + i]],
     has_more |-> HasMore(data)]


\* feed_data.get('count', 0) on what get_feed returned: the dict has no
\* 'count' key, so the default is taken.
FeedDataCount(feed_data) == 0

(***************************************************************************)
(* str hashes.  hash(s) is a function of the process's hash seed and of    *)
(* the string; Digest stands for the string's content.                     *)
(***************************************************************************)
StrHash(digest, hseed) == digest * (2 * hseed + 1) + 7919 * hseed

UrlDigest(u) == 100 * Len(u.dir) + 10 * Len(u.stem) + Len(u.ext)

\* json.dumps(entry): the entry's whole content.
EntryDigest(e) ==
    (IF e.object_id = None THEN 0 ELSE e.object_id)
    + 7 * (e.event_date.min + 1) + 3 * (e.event_date.sec + 1)
    + 11 * Len(e.actor.first_name) + 13 * Len(e.actor.last_name)
    + UrlDigest(e.media.image_url) + 2 * UrlDigest(e.media.thumbnail_url)
    + 3 * UrlDigest(e.media.video_thumbnail_url) + 5 * UrlDigest(e.media.video_url)

(***************************************************************************)
(* download_media: the local filename.                                     *)
(***************************************************************************)
NowMinute(now) == now \div 60
NowDate(now) == [min |-> now \div 60, sec |-> now % 60]

\* Lines 582-590: os.path.basename of the URL path, or the synthesized
\* media_{int(time.time())}_{hash(url) % 10000}.{media_type}.
BaseFileName(url, media_type, now, hseed) ==
    IF url.ext # ""
    THEN [stem |-> url.stem, ext |-> url.ext, t |-> None, h |-> None]
    ELSE [stem |-> "media", ext |-> media_type, t |-> now,
          h |-> StrHash(UrlDigest(url), hseed) % HashMod]

\* Lines 593-596: "{ts_prefix}-{base_file_name}".
TimestampedFileName(url, media_type, event_date, now, hseed) ==
    [prefix |-> IF event_date # NoDate THEN event_date.min ELSE NowMinute(now),
     base |-> BaseFileName(url, media_type, now, hseed)]

(***************************************************************************)
(* process_feed_entry: id, event date, record filename.                    *)
(***************************************************************************)
EntryId(entry, hseed) ==
    IF entry.object_id # None THEN entry.object_id
    ELSE StrHash(EntryDigest(entry), hseed) % HashMod

\* A date that does not parse taken as the epoch.
ParseEventDate_Epoch(raw, now) ==
    IF raw.text = "absent" THEN NoDate
    ELSE IF raw.text = "iso" THEN [min |-> raw.min, sec |-> raw.sec]
    ELSE [min |-> 0, sec |-> 0]

\* Lines 655-662: None without event_date, the parsed date, or the current
\* time when the text does not parse.
ParseEventDate(raw, now) ==
    IF raw.text = "absent" THEN NoDate
    ELSE IF raw.text = "iso" THEN [min |-> raw.min, sec |-> raw.sec]
    ELSE NowDate(now)

\* str.lower() of the names the feeds use.
Lower(s) ==
    CASE s = "Ann" -> "ann"
      [] s = "Lee" -> "lee"
      [] s = "Bo" -> "bo"
      [] OTHER -> s

\* actor.get(key, 'unknown')
NameOrUnknown(name) == IF name = "#missing" THEN "unknown" ELSE name

\* Lines 721-727 raise AttributeError when actor is null (None.get) or a
\* name is null (None.lower()).
ActorRaises(entry) ==
    \/ entry.actor.json = "null"
    \/ entry.actor.first_name = "#null"
    \/ entry.actor.last_name = "#null"

EntryFileName(entry, event_date, now, hseed) ==
    [ts |-> IF event_date # NoDate THEN event_date ELSE NowDate(now),
     first |-> Lower(NameOrUnknown(entry.actor.first_name)),
     last |-> Lower(NameOrUnknown(entry.actor.last_name)),
     id |-> EntryId(entry, hseed)]

\* The references without the video thumbnail.
MediaRefs_NoVideoThumb(entry) ==
    LET m == entry.media
        all == << [url |-> m.image_url, type |-> "image", url_type |-> "image_url"],
                  [url |-> m.thumbnail_url, type |-> "image", url_type |-> "thumbnail_url"],
                  [url |-> m.video_url, type |-> "video", url_type |-> "video_url"] >>
    IN SelectSeq(all, LAMBDA r : r.url # NoUrl)

\* The media references of an entry in the order lines 678-718 visit them.
MediaRefs(entry) ==
    LET m == entry.media
        all == << [url |-> m.image_url, type |-> "image", url_type |-> "image_url"],
                  [url |-> m.thumbnail_url, type |-> "image", url_type |-> "thumbnail_url"],
                  [url |-> m.video_thumbnail_url, type |-> "image",
                   url_type |-> "video_thumbnail_url"],
                  [url |-> m.video_url, type |-> "video", url_type |-> "video_url"] >>
    IN SelectSeq(all, LAMBDA r : r.url # NoUrl)

\* The activities get_feed hands on, by handle, and their media references.
Handles ==
    UNION {{[student |-> Students[n], k |-> i] : i \in 1..Len(Feed(Students[n]))} :
           n \in 1..Len(Students)}
EntryTable == [h \in Handles |-> FoldVideoInfo(Feed(h.student)[h.k])]
EntryOf(h) == EntryTable[h]
RefsTable == [h \in Handles |-> MediaRefs(EntryTable[h])]
RefsOf(h) == RefsTable[h]

(***************************************************************************)
(* State.                                                                  *)
(***************************************************************************)
VARIABLES
    \* the archive root, kept from run to run
    histFile,          \* download_history.json: [exists, urls]
    files,             \* media files: [student, dir, name, state, url]
    records,           \* per-entry record files: [student, name, entry]
    index,             \* feed_index.json of each student: <<>> or <<index>>
    \* the running process
    run,               \* which run of the program this is
    hseed,             \* the process's str-hash seed
    clock,             \* time.time(), seconds
    max_pages,         \* --max-pages, None for --all
    hist_ok,           \* whether download_history.json can be written in this run
    pc,                \* "student", "loop", "entry", "finally", "exit", "crash"
    si,                \* position in self.students
    page, has_more, total_entries, all_entries,   \* _scrape_feed_for_student locals
    feed_data,         \* the page being processed
    ei,                \* position in feed_data.entries
    ri,                \* position in the entry's media references
    downloaded_media,  \* processed_entry['downloaded_media'] of the current entry
    downloaded_files,  \* self.downloaded_files
    \* bookkeeping of what has happened
    faults,            \* environment faults so far
    fetched,           \* per URL, completed downloads (fetched and written)
    calls,             \* download_media calls that returned a filename
    refetched,         \* a network call was made for a URL downloaded before
    interrupted,       \* students whose run got a KeyboardInterrupt, this run
    feedLog,           \* per student, this run's get_feed calls:
                       \*   <<[page, res, at, has_more]>>, the first being line 745's
    written,           \* per student, this run's processed entries whose record
                       \*   file was written, in order
    histFault,         \* a write or read of download_history.json has failed
    prevRecords,       \* the record files as the previous run left them
    failedOf,          \* this run's failures inside entries: [student, k, what],
                       \*   what a url_type (its fetch failed) or "record"
    \* one call of a pure function of the program (specification PureSpec)
    pin,               \* the input: [kind, ...]
    pout,              \* the result: [kind |-> "none"] before the call
    \* two processes started over the same archive root (specification
    \* ConcSpec; the archive is histFile and files)
    cPc,               \* per process: "new", "check", "fetch", "done"
    cMem,              \* per process: its self.downloaded_files
    cTodo,             \* per process: the urls its entries still reference
    cLast              \* the process that wrote download_history.json last, or 0

archive == <<histFile, files, records, index>>
locals == <<page, has_more, total_entries, all_entries, feed_data, ei, ri,
            downloaded_media>>
process == <<run, hseed, clock, max_pages, hist_ok, pc, si, downloaded_files>>
book == <<faults, fetched, calls, refetched, interrupted, feedLog, written,
          histFault, prevRecords, failedOf>>
pure == <<pin, pout>>
conc == <<cPc, cMem, cTodo, cLast>>
other == <<pure, conc>>
vars == <<archive, locals, process, book, other>>

AllUrls == {U1, U2, U3, UV, ReplacePlaylist(UP)}
NoFeedData == [entries |-> <<>>, has_more |-> FALSE]
StudentIds == {Students[i] : i \in 1..Len(Students)}
CurStudent == Students[si]
MayFault == faults < MaxFaults

NoCall == [kind |-> "none"]
PureIdle == pin = NoCall /\ pout = NoCall

\* The archive and the process after __init__, before the first student.
MainInit ==
    /\ histFile = [exists |-> FALSE, urls |-> {}]
    /\ files = {}
    /\ records = {}
    /\ index = [s \in StudentIds |-> <<>>]
    /\ run = 1
    /\ hseed \in HashSeeds
    /\ clock = 0
    /\ max_pages \in MaxPagesArgs
    /\ hist_ok \in BOOLEAN
    /\ pc = "student"
    /\ si = 1
    /\ page = 1 /\ has_more = TRUE /\ total_entries = None /\ all_entries = <<>>
    /\ feed_data = NoFeedData /\ ei = 1 /\ ri = 1 /\ downloaded_media = <<>>
    /\ downloaded_files = {}
    /\ faults = IF hist_ok THEN 0 ELSE 1
    /\ fetched = [u \in AllUrls |-> 0]
    /\ calls = {}
    /\ refetched = FALSE
    /\ interrupted = {}
    /\ feedLog = [s \in StudentIds |-> <<>>]
    /\ written = [s \in StudentIds |-> <<>>]
    /\ histFault = FALSE
    /\ prevRecords = {}
    /\ failedOf = {}

Procs == {1, 2}
ConcIdle ==
    /\ cPc = [p \in Procs |-> "done"]
    /\ cMem = [p \in Procs |-> {}]
    /\ cTodo = [p \in Procs |-> <<>>]
    /\ cLast = 0

Init == MainInit /\ PureIdle /\ ConcIdle

(***************************************************************************)
(* Decisions of the code, one operator each.                               *)
(***************************************************************************)
\* The history merged into what the file already holds.
SaveDownloadHistory_Merge(df, writable, old) ==
    IF writable THEN [exists |-> TRUE, urls |-> df \cup old.urls] ELSE old

\* The history never written.
SaveDownloadHistory_Skip(df, writable, old) == old

\* _save_download_history: the file gets the in-memory set; a failed write is
\* logged and leaves the file as it was.
SaveDownloadHistory(df, writable, old) ==
    IF writable THEN [exists |-> TRUE, urls |-> df] ELSE old

\* _load_download_history: the set of the file, or the empty set of __init__
\* when the file is missing or cannot be read.
LoadDownloadHistory(file, readable) ==
    IF file.exists /\ readable THEN file.urls ELSE {}

\* The dedup check without its history branch.
NeedsFetch_NoHistory(exists, url, df) == ~exists

\* download_media, lines 602-608: neither the path exists nor the URL is in
\* the history, so the file is fetched.
NeedsFetch(exists, url, df) == ~exists /\ url \notin df

\* The URL marked as downloaded whatever the fetch did.
HistoryAfter_Always(exists, fetchedOk, url, df) == df \cup {url}

\* download_media, lines 602-604 and 638: the history after the call.
HistoryAfter(exists, fetchedOk, url, df) ==
    IF exists \/ fetchedOk THEN df \cup {url} ELSE df

MediaDir(media_type) == IF media_type = "image" THEN "images" ELSE "videos"

\* The while condition without its max_pages part.
ContinuePaging_NoMax(more, maxp, pg) == more

\* The while condition of line 752.
ContinuePaging(more, maxp, pg) == more /\ (maxp = None \/ pg <= maxp)

\* Line 752: where control goes from the loop head.
LoopHead(more, maxp, pg) ==
    IF ContinuePaging(more, maxp, pg) THEN "loop" ELSE "finally"

\* No feed data, and the loop goes round again instead of breaking.
OnNoFeedData_Continue == "loop"

\* Line 756-758: no feed data breaks out of the loop.
OnNoFeedData == "finally"

\* The entry appended before it is known that processing completed.
AfterEntry_Always(all, processed, raised) == Append(all, processed)

\* An empty page processed like any other.
OnEntries_NoStop(entries) == "entry"

\* Lines 760-763: an empty entry list breaks out of the loop.
OnEntries(entries) == IF entries = <<>> THEN "finally" ELSE "entry"

\* Lines 768-773: the processed entry is appended unless processing raised.
AfterEntry(all, processed, raised) ==
    IF raised THEN all ELSE Append(all, processed)

\* Lines 789-797: the index written for a student.
IndexOf(student, all, total, pg, now) ==
    [student_id |-> student,
     total_entries_scraped |-> Len(all),
     total_entries_available |-> total,
     pages_scraped |-> pg - 1,
     scraped_date |-> now,
     entries |-> all]

(***************************************************************************)
(* Actions.                                                                *)
(***************************************************************************)
Interrupt == pc' = "finally" /\ interrupted' = interrupted \cup {CurStudent}

\* _scrape_feed_for_student, lines 738-750: the locals and the first get_feed
\* of page 1, which only reads the total.  o: "ok", "fail" (get_feed returned
\* None), "intr" (KeyboardInterrupt during the request).
BeginStudent(o) ==
    /\ pc = "student"
    /\ o # "ok" => MayFault
    /\ page' = 1 /\ all_entries' = <<>> /\ has_more' = TRUE
    /\ total_entries' = IF o = "ok"
                        THEN FeedDataCount(GetFeedJson(ServerPage(CurStudent, 1)))
                        ELSE None
    /\ feedLog' = [feedLog EXCEPT ![CurStudent] =
                      <<[page |-> 1, res |-> o, at |-> clock,
                         has_more |-> IF o = "ok"
                                      THEN GetFeedJson(ServerPage(CurStudent, 1)).has_more
                                      ELSE FALSE]>>]
    /\ faults' = IF o = "ok" THEN faults ELSE faults + 1
    /\ IF o = "intr" THEN Interrupt
       ELSE pc' = LoopHead(TRUE, max_pages, 1) /\ UNCHANGED interrupted
    /\ UNCHANGED <<archive, feed_data, ei, ri, downloaded_media, run, hseed, clock,
                   max_pages, hist_ok, si, downloaded_files, fetched, calls,
                   refetched, written, histFault, prevRecords, failedOf, other>>

\* Lines 752-763: get_feed of the current page.  o: "ok"; "fail" (get_feed
\* returned None); "intr"; "empty" (the server answers a page without
\* activities, whatever it said before).
FetchPage(o) ==
    /\ pc = "loop"
    /\ o # "ok" => MayFault
    /\ faults' = IF o = "ok" THEN faults ELSE faults + 1
    /\ LET fd == IF o = "empty" THEN NoFeedData
                 ELSE GetFeedJson(ServerPage(CurStudent, page))
       IN /\ feedLog' = [feedLog EXCEPT ![CurStudent] =
                           Append(@, [page |-> page, res |-> o, at |-> clock,
                                      has_more |-> IF o = "ok" THEN fd.has_more
                                                   ELSE FALSE])]
          /\ CASE o = "intr" ->
                    Interrupt /\ UNCHANGED <<feed_data, ei, ri, downloaded_media>>
              [] o = "fail" ->
                    /\ pc' = OnNoFeedData
                    /\ UNCHANGED <<interrupted, feed_data, ei, ri, downloaded_media>>
              [] OTHER ->
                    /\ pc' = OnEntries(fd.entries)
                    /\ feed_data' = fd
                    /\ ei' = 1 /\ ri' = 1 /\ downloaded_media' = <<>>
                    /\ UNCHANGED interrupted
    /\ UNCHANGED <<archive, page, has_more, total_entries, all_entries, run, hseed,
                   clock, max_pages, hist_ok, si, downloaded_files, fetched, calls,
                   refetched, written, histFault, prevRecords, failedOf, other>>

\* process_feed_entry, lines 677-718: download_media for the next media
\* reference of the current entry.  o: "ok"; "fail" (the request failed);
\* "partial" (the body failed after the file was opened); "intr" and
\* "intr_partial" (KeyboardInterrupt at those two points).
DownloadStep(o) ==
    /\ pc = "entry"
    /\ ei <= Len(feed_data.entries)
    /\ ri <= Len(RefsOf(feed_data.entries[ei]))
    /\ LET entry == EntryOf(feed_data.entries[ei])
           ref == RefsOf(feed_data.entries[ei])[ri]
           event_date == ParseEventDate(entry.event_date, clock)
           name == TimestampedFileName(ref.url, ref.type, event_date, clock, hseed)
           dir == MediaDir(ref.type)
           exists == \E f \in files :
                        f.student = CurStudent /\ f.dir = dir /\ f.name = name
           fetch == NeedsFetch(exists, ref.url, downloaded_files)
           fetchedOk == fetch /\ o = "ok"
           opened == fetch /\ o \in {"ok", "partial", "intr_partial"}
           returns == ~fetch \/ o = "ok"
           df == HistoryAfter(exists, fetchedOk, ref.url, downloaded_files)
       IN /\ ~fetch => o = "ok"
          /\ (fetch /\ o # "ok") => MayFault
          /\ files' = IF opened
                      THEN files \cup {[student |-> CurStudent, dir |-> dir,
                                        name |-> name, url |-> ref.url,
                                        state |-> IF o = "ok" THEN "complete"
                                                  ELSE "partial"]}
                      ELSE files
          /\ downloaded_files' = df
          /\ histFile' = IF fetchedOk
                         THEN SaveDownloadHistory(df, hist_ok, histFile)
                         ELSE histFile
          /\ histFault' = (histFault \/ (fetchedOk /\ ~hist_ok))
          /\ fetched' = IF fetchedOk THEN [fetched EXCEPT ![ref.url] = @ + 1]
                        ELSE fetched
          /\ refetched' = (refetched \/ (fetch /\ fetched[ref.url] > 0))
          /\ calls' = IF returns
                      THEN calls \cup {[url |-> ref.url, type |-> ref.type,
                                        date |-> event_date, student |-> CurStudent,
                                        ret |-> name, hit |-> ~fetch, run |-> run]}
                      ELSE calls
          /\ downloaded_media' =
                IF returns
                THEN Append(downloaded_media,
                            [filename |-> name, original_url |-> ref.url,
                             type |-> ref.type, url_type |-> ref.url_type])
                ELSE downloaded_media
          /\ faults' = IF fetch /\ o # "ok" THEN faults + 1 ELSE faults
          /\ failedOf' = IF fetch /\ o \in {"fail", "partial"}
                         THEN failedOf \cup {[student |-> CurStudent,
                                               k |-> feed_data.entries[ei].k,
                                               what |-> ref.url_type]}
                         ELSE failedOf
          /\ IF fetch /\ o \in {"intr", "intr_partial"}
             THEN Interrupt /\ ri' = ri
             ELSE pc' = pc /\ interrupted' = interrupted /\ ri' = ri + 1
    /\ UNCHANGED <<records, index, page, has_more, total_entries, all_entries,
                   feed_data, ei, run, hseed, clock, max_pages, hist_ok, si,
                   feedLog, written, prevRecords, other>>

\* process_feed_entry, lines 720-733, and lines 769-773: the record file is
\* written and the processed entry appended; an exception is logged and the
\* entry skipped.  o: "ok", "ioerror" (the record file cannot be written).
WriteEntry(o) ==
    /\ pc = "entry"
    /\ ei <= Len(feed_data.entries)
    /\ ri > Len(RefsOf(feed_data.entries[ei]))
    /\ LET entry == EntryOf(feed_data.entries[ei])
           event_date == ParseEventDate(entry.event_date, clock)
           name == EntryFileName(entry, event_date, clock, hseed)
           raised == ActorRaises(entry) \/ o = "ioerror"
           processed == [id |-> EntryId(entry, hseed),
                         original_data |-> feed_data.entries[ei],
                         processed_timestamp |-> clock,
                         downloaded_media |-> downloaded_media]
       IN /\ o = "ioerror" => (MayFault /\ ~ActorRaises(entry))
          /\ records' = IF raised THEN records
                        ELSE {r \in records :
                                ~(r.student = CurStudent /\ r.name = name)}
                             \cup {[student |-> CurStudent, name |-> name,
                                    entry |-> processed]}
          /\ all_entries' = AfterEntry(all_entries, processed, raised)
          /\ written' = IF raised THEN written
                        ELSE [written EXCEPT ![CurStudent] = Append(@, processed)]
    /\ faults' = IF o = "ioerror" THEN faults + 1 ELSE faults
    /\ failedOf' = IF o = "ioerror"
                   THEN failedOf \cup {[student |-> CurStudent,
                                         k |-> feed_data.entries[ei].k,
                                         what |-> "record"]}
                   ELSE failedOf
    /\ ei' = ei + 1 /\ ri' = 1 /\ downloaded_media' = <<>>
    /\ UNCHANGED <<histFile, files, index, page, has_more, total_entries, feed_data,
                   process, fetched, calls, refetched, interrupted, feedLog,
                   histFault, prevRecords, other>>

\* Lines 775-780: has_more of the page, the next page number, time.sleep(2).
\* o: "ok", "intr" (KeyboardInterrupt during the sleep).
EndPage(o) ==
    /\ pc = "entry"
    /\ ei > Len(feed_data.entries)
    /\ o # "ok" => MayFault
    /\ has_more' = feed_data.has_more
    /\ page' = page + 1
    /\ faults' = IF o = "ok" THEN faults ELSE faults + 1
    /\ IF o = "intr" THEN Interrupt /\ clock' = clock
       ELSE /\ pc' = LoopHead(feed_data.has_more, max_pages, page + 1)
            /\ clock' = clock + SleepSeconds
            /\ UNCHANGED interrupted
    /\ UNCHANGED <<archive, total_entries, all_entries, feed_data, ei, ri,
                   downloaded_media, run, hseed, max_pages, hist_ok, si,
                   downloaded_files, fetched, calls, refetched, feedLog, written,
                   histFault, prevRecords, failedOf, other>>

\* The finally block, lines 785-805, and the step of the for loop of line 815
\* to the next student.  o: "ok", "ioerror" (feed_index.json cannot be
\* written: the exception leaves the finally block and ends the process).
Finally(o) ==
    /\ pc = "finally"
    /\ o # "ok" => MayFault
    /\ faults' = IF o = "ok" THEN faults ELSE faults + 1
    /\ IF o = "ok"
       THEN /\ index' = [index EXCEPT ![CurStudent] =
                           <<IndexOf(CurStudent, all_entries, total_entries, page, clock)>>]
            /\ histFile' = SaveDownloadHistory(downloaded_files, hist_ok, histFile)
            /\ histFault' = (histFault \/ ~hist_ok)
            /\ pc' = IF si = Len(Students) THEN "exit" ELSE "student"
            /\ si' = IF si = Len(Students) THEN si ELSE si + 1
       ELSE /\ pc' = "crash"
            /\ UNCHANGED <<index, histFile, histFault, si>>
    /\ UNCHANGED <<files, records, locals, run, hseed, clock, max_pages, hist_ok,
                   downloaded_files, fetched, calls, refetched, interrupted, feedLog,
                   written, prevRecords, failedOf, other>>

\* The program is started again over the same archive root: __init__, lines
\* 85-87.  readable = FALSE: download_history.json exists and cannot be read
\* or parsed.  wiped = TRUE: the media files were deleted between the runs.
NewRun(seed, writable, readable, wiped) ==
    /\ pc \in {"exit", "crash"}
    /\ run < MaxRuns
    /\ ~readable => histFile.exists
    /\ wiped => files # {}
    /\ LET n == (IF writable THEN 0 ELSE 1) + (IF readable THEN 0 ELSE 1)
                + (IF wiped THEN 1 ELSE 0)
       IN faults + n <= MaxFaults /\ faults' = faults + n
    /\ files' = IF wiped THEN {} ELSE files
    /\ run' = run + 1
    /\ hseed' = seed
    /\ hist_ok' = writable
    /\ clock' = clock + RunGap
    /\ downloaded_files' = LoadDownloadHistory(histFile, readable)
    /\ histFault' = (histFault \/ ~readable)
    /\ prevRecords' = records
    /\ pc' = "student" /\ si' = 1
    /\ page' = 1 /\ has_more' = TRUE /\ total_entries' = None /\ all_entries' = <<>>
    /\ feed_data' = NoFeedData /\ ei' = 1 /\ ri' = 1 /\ downloaded_media' = <<>>
    /\ interrupted' = {}
    /\ feedLog' = [s \in StudentIds |-> <<>>]
    /\ written' = [s \in StudentIds |-> <<>>]
    /\ failedOf' = {}
    /\ UNCHANGED <<histFile, records, index, max_pages, fetched, calls, refetched,
                   other>>

Next ==
    \/ \E o \in {"ok", "fail", "intr"} : BeginStudent(o)
    \/ \E o \in {"ok", "fail", "intr", "empty"} : FetchPage(o)
    \/ \E o \in {"ok", "fail", "partial", "intr", "intr_partial"} : DownloadStep(o)
    \/ \E o \in {"ok", "ioerror"} : WriteEntry(o)
    \/ \E o \in {"ok", "intr"} : EndPage(o)
    \/ \E o \in {"ok", "ioerror"} : Finally(o)
    \/ \E seed \in HashSeeds, writable \in BOOLEAN, readable \in BOOLEAN,
          wiped \in BOOLEAN :
          NewRun(seed, writable, readable, wiped)

Spec == Init /\ [][Next]_vars

(***************************************************************************)
(* Single calls of the pure parts of get_feed, process_feed_entry and      *)
(* main, over inputs the feeds above do not hold.                          *)
(***************************************************************************)
main == <<archive, locals, process, book>>

UM == [dir |-> "x", stem |-> "d", ext |-> "mp4"]
US == [dir |-> "x/a", stem |-> "stream", ext |-> "m3u8"]

\* Activities with every combination of video_info urls, with and without a
\* media object of their own.
VideoActivities ==
    {Activity(9031, IsoDate(100, 5), Actor("Ann", "Lee"), m, VideoInfo(sv, dv, tv)) :
        m \in {NoMedia, [NoMedia EXCEPT !.image_url = U1],
               [NoMedia EXCEPT !.video_url = U2]},
        sv \in {NoUrl, UP, US}, dv \in {NoUrl, UM, UV}, tv \in {NoUrl, U3}}
    \cup {Activity(9031, IsoDate(100, 5), Actor("Ann", "Lee"), NoMedia, NoVideoInfo)}

\* A markup (non-JSON) response: how many div.video-react-poster carry a
\* background-image, and whether the page has a next-page / load-more element.
Markups ==
    {[posters |-> n, next |-> b] : n \in 0..MaxPosters, b \in BOOLEAN}

\* get_feed, lines 463-493, for a markup body: building an entry evaluates
\* uuid.uuid4() though no module uuid is imported, and the NameError is caught
\* by line 491, so the call returns None; with no poster the page is empty.
\* has_more is the literal False.  ok = FALSE stands for None.
GetFeedHtml(markup) ==
    IF markup.posters > 0
    THEN [ok |-> FALSE, nentries |-> 0, has_more |-> FALSE]
    ELSE [ok |-> TRUE, nentries |-> 0, has_more |-> FALSE]

\* Lines 756-780: where the paginator goes with what get_feed returned for
\* page pg ("entry" stands for processing the entries, then the loop head).
AfterGetFeed(fd, maxp, pg) ==
    IF ~fd.ok THEN OnNoFeedData
    ELSE IF fd.nentries = 0 THEN "finally"
    ELSE LoopHead(fd.has_more, maxp, pg + 1)

\* --start-date / --end-date: not given, a YYYY-MM-DD date, or text that
\* strptime(..., '%Y-%m-%d') rejects.
DateArgs == {"absent", "valid", "malformed"}

\* main, lines 869-882: a date that does not parse ends the process with
\* sys.exit(1) before the scraper is built.
MainValidateDates(start, end) ==
    IF start = "malformed" \/ end = "malformed" THEN "exit1" ELSE "run"

\* get_feed, lines 315-342: the date parameters of the request; a date that
\* does not parse is logged as a warning and left out.
GetFeedDateParams(start_date_str, end_date_str) ==
    (IF start_date_str = "valid" THEN {"start_date"} ELSE {})
    \cup (IF end_date_str = "valid" THEN {"end_date"} ELSE {})

\* Activities the server sends without an object_id, all of the same second
\* and the same actor: two videos and a photo.
UL1 == [dir |-> "cdn/p1", stem |-> "v", ext |-> "mp4"]
UL2 == [dir |-> "cdn/videos/2024/11/04/p001", stem |-> "v", ext |-> "mp4"]
IdlessActivities ==
    {Activity(None, IsoDate(100, 5), Actor("Ann", "Lee"), m, NoVideoInfo) :
        m \in {[NoMedia EXCEPT !.video_url = UL1],
               [NoMedia EXCEPT !.video_url = UL2],
               [NoMedia EXCEPT !.image_url = U1]}}

PureInputs ==
    {[kind |-> "video", activity |-> a] : a \in VideoActivities}
    \cup {[kind |-> "markup", markup |-> m] : m \in Markups}
    \cup {[kind |-> "dates", start |-> a, end |-> b] : a \in DateArgs, b \in DateArgs}
    \cup {x \in {[kind |-> "ids", first |-> a, second |-> b, seed |-> h] :
                     a \in IdlessActivities, b \in IdlessActivities,
                     h \in HashSeeds} : x.first # x.second}

PureInit ==
    /\ MainInit /\ hseed = 0 /\ max_pages = None /\ hist_ok
    /\ pin \in PureInputs
    /\ pout = NoCall
    /\ ConcIdle

\* get_feed's handling of one activity, then the media references
\* process_feed_entry finds in it and the directory each goes to.
ResolveVideo ==
    /\ pin.kind = "video" /\ pout = NoCall
    /\ LET entry == FoldVideoInfo(pin.activity)
       IN pout' = [kind |-> "video", entry |-> entry, refs |-> MediaRefs(entry)]
    /\ UNCHANGED <<main, pin, conc>>

\* get_feed on a markup response to the request of page 1, and the
\* paginator's next step.
ParseMarkup ==
    /\ pin.kind = "markup" /\ pout = NoCall
    /\ LET fd == GetFeedHtml(pin.markup)
       IN pout' = [kind |-> "markup", fd |-> fd,
                   next_pc |-> AfterGetFeed(fd, max_pages, 1)]
    /\ UNCHANGED <<main, pin, conc>>

\* main is started with the two date arguments.
ValidateDates ==
    /\ pin.kind = "dates" /\ pout = NoCall
    /\ pout' = [kind |-> "dates", main |-> MainValidateDates(pin.start, pin.end),
                requested |-> FALSE, params |-> {}]
    /\ UNCHANGED <<main, pin, conc>>

\* The run, if main let it start, makes its feed request.
RequestWithDates ==
    /\ pout.kind = "dates" /\ pout.main = "run" /\ ~pout.requested
    /\ pout' = [pout EXCEPT !.requested = TRUE,
                            !.params = GetFeedDateParams(pin.start, pin.end)]
    /\ UNCHANGED <<main, pin, conc>>

\* process_feed_entry on two entries of one page, one after the other, lines
\* 652 and 720-731: each record file is opened with 'w' under its filename, so
\* the second write replaces a file of the same name.
WriteRecords ==
    /\ pin.kind = "ids" /\ pout = NoCall
    /\ LET na == EntryFileName(pin.first, ParseEventDate(pin.first.event_date, 0),
                               0, pin.seed)
           nb == EntryFileName(pin.second, ParseEventDate(pin.second.event_date, 0),
                               0, pin.seed)
       IN pout' = [kind |-> "ids",
                   records |-> {r \in {[name |-> na, entry |-> pin.first]} :
                                   r.name # nb}
                               \cup {[name |-> nb, entry |-> pin.second]}]
    /\ UNCHANGED <<main, pin, conc>>

PureNext ==
    \/ ResolveVideo
    \/ ParseMarkup
    \/ ValidateDates
    \/ RequestWithDates
    \/ WriteRecords

PureSpec == PureInit /\ [][PureNext]_vars

(***************************************************************************)
(* Two processes of the program started over the same archive root, each   *)
(* with its own self.downloaded_files, both archiving student 1.  The      *)
(* steps are download_media's: the dedup check, then the fetch with the    *)
(* file write and the history save; and the history save of the finally    *)
(* block when a process has gone through its urls.                         *)
(***************************************************************************)
WorkLists == {<<U1>>, <<U3>>, <<U1, U3>>, <<U3, U1>>}
ConcDate == [min |-> 100, sec |-> 5]

ConcFile(url) ==
    [student |-> 1, dir |-> MediaDir("image"),
     name |-> TimestampedFileName(url, "image", ConcDate, clock, hseed),
     url |-> url, state |-> "complete"]

ConcInit ==
    /\ MainInit /\ hseed = 0 /\ max_pages = None /\ hist_ok
    /\ PureIdle
    /\ cPc = [p \in Procs |-> "new"]
    /\ cMem = [p \in Procs |-> {}]
    /\ cTodo \in [Procs -> WorkLists]
    /\ cLast = 0

ConcRest == <<records, index, locals, process, faults, calls, refetched,
              interrupted, feedLog, written, histFault, prevRecords, failedOf,
              pure>>

\* __init__, lines 85-87: the process loads the history file.
CStart(p) ==
    /\ cPc[p] = "new"
    /\ cMem' = [cMem EXCEPT ![p] = LoadDownloadHistory(histFile, TRUE)]
    /\ cPc' = [cPc EXCEPT ![p] = "check"]
    /\ UNCHANGED <<histFile, files, fetched, cTodo, cLast, ConcRest>>

\* download_media, lines 599-608: the dedup check for the next url.
CCheck(p) ==
    /\ cPc[p] = "check" /\ cTodo[p] # <<>>
    /\ LET url == Head(cTodo[p])
           exists == \E f \in files : f.student = 1 /\ f.dir = ConcFile(url).dir
                                      /\ f.name = ConcFile(url).name
       IN IF NeedsFetch(exists, url, cMem[p])
          THEN /\ cPc' = [cPc EXCEPT ![p] = "fetch"]
               /\ UNCHANGED <<cMem, cTodo>>
          ELSE /\ cMem' = [cMem EXCEPT ![p] = HistoryAfter(exists, FALSE, url, @)]
               /\ cTodo' = [cTodo EXCEPT ![p] = Tail(@)]
               /\ UNCHANGED cPc
    /\ UNCHANGED <<histFile, files, fetched, cLast, ConcRest>>

\* download_media, lines 617-642: the fetch, the file, the history save.
CFetch(p) ==
    /\ cPc[p] = "fetch"
    /\ LET url == Head(cTodo[p])
           df == HistoryAfter(FALSE, TRUE, url, cMem[p])
       IN /\ files' = files \cup {ConcFile(url)}
          /\ fetched' = [fetched EXCEPT ![url] = @ + 1]
          /\ cMem' = [cMem EXCEPT ![p] = df]
          /\ histFile' = SaveDownloadHistory(df, TRUE, histFile)
    /\ cLast' = p
    /\ cTodo' = [cTodo EXCEPT ![p] = Tail(@)]
    /\ cPc' = [cPc EXCEPT ![p] = "check"]
    /\ UNCHANGED ConcRest

\* _scrape_feed_for_student, line 804: the history save of the finally block.
CFinish(p) ==
    /\ cPc[p] = "check" /\ cTodo[p] = <<>>
    /\ histFile' = SaveDownloadHistory(cMem[p], TRUE, histFile)
    /\ cLast' = p
    /\ cPc' = [cPc EXCEPT ![p] = "done"]
    /\ UNCHANGED <<files, fetched, cMem, cTodo, ConcRest>>

ConcNext ==
    \E p \in Procs : CStart(p) \/ CCheck(p) \/ CFetch(p) \/ CFinish(p)

ConcSpec == ConcInit /\ [][ConcNext]_vars

(***************************************************************************)
(* Vocabulary of the properties.                                           *)
(***************************************************************************)
\* Students whose _scrape_feed_for_student has returned in this run.
FinishedStudents ==
    {Students[i] : i \in 1..(si - 1)} \cup (IF pc = "exit" THEN {Students[si]} ELSE {})

\* The get_feed calls of the while loop (all but the first call, line 745).
LoopCalls(s) == IF feedLog[s] = <<>> THEN <<>> ELSE Tail(feedLog[s])

Last(q) == q[Len(q)]
Ceil(a, b) == (a + b - 1) \div b

\* No loop call failed and no interrupt arrived in student s's run.
CleanPaging(s) ==
    /\ s \notin interrupted
    /\ \A i \in 1..Len(LoopCalls(s)) : LoopCalls(s)[i].res = "ok"

\* feed_index.json of s was written in this run.
FreshIndex(s) ==
    index[s] # <<>> /\ index[s][1].scraped_date >= (run - 1) * RunGap

RecordNames(recs, s) == {r.name : r \in {x \in recs : x.student = s}}

SameInputs(c1, c2) ==
    /\ c1.url = c2.url /\ c1.type = c2.type
    /\ c1.date = c2.date /\ c1.student = c2.student

(***************************************************************************)
(* C1: as long as every write and every read of download_history.json      *)
(* succeeded (the runs reload the history), no URL is downloaded (fetched  *)
(* and written) more than once, within a run and across runs, and no       *)
(* network call is made for a URL that was downloaded before.              *)
(***************************************************************************)
C1_AtMostOnce ==
    ~histFault => (~refetched /\ \A u \in AllUrls : fetched[u] <= 1)

\* A later run is handed a URL that an earlier run downloaded and serves it
\* without fetching.
C1_Witness ==
    /\ run = 2 /\ ~histFault
    /\ \E c \in calls : c.run = 2 /\ c.hit /\ fetched[c.url] = 1

(***************************************************************************)
(* C2: a download_media call that finds the URL in the history or the      *)
(* derived path on disk (a call that makes no network request) returns the *)
(* filename every other call with the same url, media kind, event          *)
(* timestamp and directory returned.                                       *)
(***************************************************************************)
C2_IdempotentDownload ==
    \A c1, c2 \in calls : (c2.hit /\ SameInputs(c1, c2)) => c1.ret = c2.ret

(***************************************************************************)
(* C3: any two download_media calls with the same event timestamp and URL  *)
(* derive the same filename, in one run or in two.                         *)
(***************************************************************************)
C3_FilenameDeterministic ==
    \A c1, c2 \in calls : (c1.url = c2.url /\ c1.date = c2.date) => c1.ret = c2.ret

(***************************************************************************)
(* C4: the entries of a written feed_index.json are exactly, in order, the *)
(* entries whose processing completed and wrote the record file; while a   *)
(* student is being scraped all_entries_for_student is that sequence too.  *)
(***************************************************************************)
C4_IndexIsCompleted ==
    /\ pc \in {"loop", "entry", "finally"} => all_entries = written[CurStudent]
    /\ \A s \in FinishedStudents :
          /\ index[s] # <<>>
          /\ index[s][1].entries = written[s]
          /\ index[s][1].total_entries_scraped = Len(written[s])

\* An interrupted student's index is written with the entries completed
\* before the interrupt, the entry under way left out.
C4_Witness ==
    \E s \in FinishedStudents \cap interrupted :
        /\ Len(written[s]) = 1
        /\ Len(feedLog[s]) = 2
        /\ index[s][1].entries = written[s]

(***************************************************************************)
(* C5: the index of a student interrupted after k of the N available       *)
(* entries has total_entries_scraped = k and total_entries_available = N.  *)
(***************************************************************************)
C5_PartialRunCounts ==
    \A s \in FinishedStudents \cap interrupted :
        Len(written[s]) < Len(Feed(s)) =>
            /\ index[s][1].total_entries_scraped = Len(written[s])
            /\ index[s][1].total_entries_available = Len(Feed(s))

(***************************************************************************)
(* C6: has_more after page p of a feed of T entries in pages of S is       *)
(* T > p*S; with no max_pages, no failure and no interrupt the loop        *)
(* requests and processes exactly ceil(T/S) pages.                         *)
(***************************************************************************)
C6_HasMoreAndPageCount ==
    /\ \A s \in StudentIds : \A i \in 1..Len(feedLog[s]) :
          feedLog[s][i].res = "ok" =>
              feedLog[s][i].has_more = (Len(Feed(s)) > feedLog[s][i].page * PageSize)
    /\ \A s \in FinishedStudents :
          (max_pages = None /\ CleanPaging(s)) =>
              /\ index[s][1].pages_scraped = Ceil(Len(Feed(s)), PageSize)
              /\ Len(LoopCalls(s)) = Ceil(Len(Feed(s)), PageSize)

\* Three entries in pages of two: has_more after page 1, not after page 2,
\* two pages scraped.
C6_Witness ==
    /\ 1 \in FinishedStudents /\ max_pages = None /\ CleanPaging(1)
    /\ Len(LoopCalls(1)) = 2
    /\ LoopCalls(1)[1].has_more /\ ~LoopCalls(1)[2].has_more
    /\ index[1][1].pages_scraped = 2

C8_MaxPagesBound ==
    /\ max_pages # None =>
          /\ \A s \in StudentIds : Len(LoopCalls(s)) <= max_pages
          /\ pc \in {"loop", "entry", "finally"} => page - 1 <= max_pages
          /\ \A s \in FinishedStudents : index[s][1].pages_scraped <= max_pages
    /\ (max_pages = None /\ pc = "finally" /\ CleanPaging(CurStudent)
        /\ LoopCalls(CurStudent) # <<>>) =>
          ~Last(LoopCalls(CurStudent)).has_more

\* max_pages = 1 stops student 1 after page 1 though has_more is true.
C8_Witness ==
    /\ max_pages = 1 /\ 1 \in FinishedStudents
    /\ index[1][1].pages_scraped = 1
    /\ Last(LoopCalls(1)).has_more

(***************************************************************************)
(* C9: a second run without faults over the archive of a first run without *)
(* faults downloads nothing again and leaves student 1's feeds directory   *)
(* with the record files the first run left.                               *)
(***************************************************************************)
C9_RerunSameRecords ==
    (run = 2 /\ pc = "exit" /\ faults = 0) =>
        /\ ~refetched
        /\ RecordNames(records, 1) = RecordNames(prevRecords, 1)

(***************************************************************************)
(* C10: two record files written for the same payload without object_id   *)
(* carry the same derived id, whichever run wrote them.                    *)
(***************************************************************************)
C10_DerivedIdDeterministic ==
    \A r1, r2 \in records :
        (/\ r1.entry.original_data = r2.entry.original_data
         /\ EntryOf(r1.entry.original_data).object_id = None)
        => r1.entry.id = r2.entry.id

(***************************************************************************)
(* C11: for an activity with a video_info object (one that names a video   *)
(* url), media.video_url after get_feed is downloadable_url if present;    *)
(* else streamable_url with playlist.m3u8 replaced by video.mp4 if it has  *)
(* that substring; else streamable_url as it is; and process_feed_entry    *)
(* finds it as the reference of type video, url_type video_url.            *)
(***************************************************************************)
C11_PrimaryVideoUrl ==
    (pout.kind = "video" /\ pin.activity.video_info.present) =>
        LET vi == pin.activity.video_info
            sv == vi.streamable_url
            expected ==
                IF vi.downloadable_url # NoUrl THEN vi.downloadable_url
                ELSE IF sv.stem = "playlist" /\ sv.ext = "m3u8"
                     THEN [dir |-> sv.dir, stem |-> "video", ext |-> "mp4"]
                     ELSE sv
        IN (vi.downloadable_url # NoUrl \/ sv # NoUrl) =>
              /\ pout.entry.media.video_url = expected
              /\ \E i \in 1..Len(pout.refs) :
                    pout.refs[i] = [url |-> expected, type |-> "video",
                                    url_type |-> "video_url"]

\* Both urls present: the downloadable one is chosen, not the stream.
C11_Witness ==
    /\ pout.kind = "video"
    /\ pin.activity.video_info.downloadable_url = UM
    /\ pin.activity.video_info.streamable_url = UP
    /\ pout.entry.media.video_url = UM

(***************************************************************************)
(* C12: when video_info.thumbnail_url is present, the entry has a media    *)
(* reference of type image and url_type video_thumbnail_url for it, which  *)
(* goes to the images directory, whichever video url was chosen and also   *)
(* when video_info names no video url at all.                              *)
(***************************************************************************)
C12_VideoThumbnailReference ==
    (/\ pout.kind = "video"
     /\ pin.activity.video_info.present
     /\ pin.activity.video_info.thumbnail_url # NoUrl) =>
        \E i \in 1..Len(pout.refs) :
            /\ pout.refs[i] = [url |-> pin.activity.video_info.thumbnail_url,
                               type |-> "image",
                               url_type |-> "video_thumbnail_url"]
            /\ MediaDir(pout.refs[i].type) = "images"

\* A thumbnail with neither a downloadable nor a streamable url: the
\* thumbnail is the entry's only reference.
C12_Witness ==
    /\ pout.kind = "video"
    /\ pin.activity.video_info.thumbnail_url = U3
    /\ pin.activity.video_info.downloadable_url = NoUrl
    /\ pin.activity.video_info.streamable_url = NoUrl
    /\ pin.activity.media = NoMedia
    /\ Len(pout.refs) = 1 /\ pout.refs[1].url = U3

(***************************************************************************)
(* C13: for a markup feed response get_feed returns a page whose has_more  *)
(* is true exactly when the markup has a next-page element, and the        *)
(* paginator goes on to the next page when it has one.                     *)
(***************************************************************************)
C13_MarkupHasMore ==
    pout.kind = "markup" =>
        /\ pout.fd.ok
        /\ pout.fd.has_more = pin.markup.next
        /\ pin.markup.next => pout.next_pc = "loop"

(***************************************************************************)
(* C14: a download_media call whose fetch fails returns no filename and    *)
(* leaves the history (in memory and on disk) as it was, and the entry     *)
(* goes on with its next reference; every entry persisted in this run has  *)
(* its record file, and its downloaded_media lists, in order, exactly the  *)
(* entry's references whose fetch did not fail.                            *)
(***************************************************************************)
FailedFetches == {x \in failedOf : x.what # "record"}

UrlTypes(q) == [j \in 1..Len(q) |-> q[j].url_type]

C14_Persisted ==
    \A s \in StudentIds : \A i \in 1..Len(written[s]) :
        LET w == written[s][i]
            h == w.original_data
            kept == SelectSeq(RefsOf(h),
                        LAMBDA r : [student |-> h.student, k |-> h.k,
                                    what |-> r.url_type] \notin failedOf)
        IN /\ UrlTypes(w.downloaded_media) = UrlTypes(kept)
           /\ \E r \in records : r.student = s /\ r.entry = w

C14_FailedFetchStep ==
    (\E x \in FailedFetches' : x \notin FailedFetches) =>
        /\ UNCHANGED <<downloaded_files, histFile, downloaded_media, ei>>
        /\ pc' = "entry" /\ ri' = ri + 1

C14_FailedDownloadContained == []C14_Persisted /\ [][C14_FailedFetchStep]_vars

\* A3's video thumbnail failed; its other two references are in the
\* persisted entry.
C14_Witness ==
    /\ [student |-> 1, k |-> 3, what |-> "video_thumbnail_url"] \in failedOf
    /\ \E i \in 1..Len(written[1]) :
          /\ written[1][i].original_data = [student |-> 1, k |-> 3]
          /\ UrlTypes(written[1][i].downloaded_media) = <<"thumbnail_url", "video_url">>

(***************************************************************************)
(* C15: no failure other than a configuration or authentication error      *)
(* ends the run: after a failed page fetch, download, record write, index  *)
(* write or history write the process is still running (it never ends by   *)
(* an uncaught exception).                                                 *)
(***************************************************************************)
C15_FailuresContained == pc # "crash"

(***************************************************************************)
(* C16: whichever way a student's loop ended (completion, failed fetch,    *)
(* interrupt), when _scrape_feed_for_student returns it has written the    *)
(* student's index with the entries accumulated so far and saved the       *)
(* download history (the file then holds the in-memory set, unless it      *)
(* cannot be written); once the student was interrupted no further         *)
(* get_feed call is made for it.                                           *)
(***************************************************************************)
C16_Returned ==
    /\ \A s \in FinishedStudents :
          FreshIndex(s) /\ index[s][1].entries = written[s]
    /\ (pc \in {"student", "exit"} /\ FinishedStudents # {} /\ hist_ok) =>
          histFile = [exists |-> TRUE, urls |-> downloaded_files]

C16_ReturnStep ==
    /\ (pc = "finally" /\ pc' \in {"student", "exit"}) =>
          /\ index'[CurStudent] # <<>>
          /\ index'[CurStudent][1].entries = all_entries
          /\ index'[CurStudent][1].scraped_date = clock
          /\ hist_ok => histFile' = [exists |-> TRUE, urls |-> downloaded_files]
    /\ run' = run => \A s \in interrupted : feedLog'[s] = feedLog[s]

C16_IndexAndHistoryOnReturn == []C16_Returned /\ [][C16_ReturnStep]_vars

\* Student 1 was interrupted on page 2: its index holds the two entries of
\* page 1 and the history file holds the urls downloaded so far.
C16_Witness ==
    /\ 1 \in FinishedStudents \cap interrupted
    /\ Len(feedLog[1]) = 3
    /\ Len(index[1][1].entries) = 2
    /\ histFile.exists /\ histFile.urls = downloaded_files /\ U1 \in histFile.urls

(***************************************************************************)
(* C17: once a student's run was interrupted, no get_feed call and no      *)
(* media download is made for any student later in the list.               *)
(***************************************************************************)
C17_InterruptStopsRun ==
    \A i, j \in 1..Len(Students) :
        (i < j /\ Students[i] \in interrupted) =>
            /\ feedLog[Students[j]] = <<>>
            /\ \A c \in calls : ~(c.student = Students[j] /\ c.run = run)

(***************************************************************************)
(* C18: a start or end date that does not parse never ends the run; the    *)
(* feed request is made without that bound and with the other bound, if    *)
(* it was given and is valid.                                              *)
(***************************************************************************)
C18_MalformedDateIsNoBound ==
    pout.kind = "dates" =>
        /\ pout.main = "run"
        /\ pout.requested =>
              pout.params = {x \in {"start_date", "end_date"} :
                                \/ x = "start_date" /\ pin.start = "valid"
                                \/ x = "end_date" /\ pin.end = "valid"}

(***************************************************************************)
(* C19: an entry whose event_date does not parse is not dropped: once its  *)
(* page was processed (and unless the entry fails for another reason: its  *)
(* actor makes processing raise, or the record file cannot be written) it  *)
(* is in the student's index and has a record file, named with the time    *)
(* it was processed.                                                       *)
(***************************************************************************)
C19_UnparsableDateArchived ==
    \A s \in FinishedStudents :
        \A k \in 1..Min(index[s][1].pages_scraped * PageSize, Len(Feed(s))) :
            (/\ Feed(s)[k].event_date.text = "garbage"
             /\ ~ActorRaises(Feed(s)[k])
             /\ [student |-> s, k |-> k, what |-> "record"] \notin failedOf) =>
                \E i \in 1..Len(index[s][1].entries) :
                    LET w == index[s][1].entries[i]
                    IN /\ w.original_data = [student |-> s, k |-> k]
                       /\ \E r \in records :
                             /\ r.student = s /\ r.entry = w
                             /\ r.name.ts = NowDate(w.processed_timestamp)

\* B2, whose event_date is not a date, is in student 2's index and has its
\* record file, named with the time it was processed.
C19_Witness ==
    /\ pc = "exit" /\ clock > 0
    /\ \E i \in 1..Len(index[2][1].entries) :
          LET w == index[2][1].entries[i]
          IN /\ w.original_data = [student |-> 2, k |-> 2]
             /\ \E r \in records :
                   /\ r.student = 2 /\ r.entry = w
                   /\ r.name.ts = NowDate(w.processed_timestamp)
                   /\ w.processed_timestamp > 0

(***************************************************************************)
(* C20: two processes over one archive root are unsafe.  What the code     *)
(* guarantees is only this: download_history.json holds what the process   *)
(* that saved last had in memory, nothing merged in from the other, and a  *)
(* url is fetched at most once by each process.  The duplicate download    *)
(* and the lost update of the claim are the reachable state C20_Witness.   *)
(***************************************************************************)
C20_LastWriterWins ==
    /\ histFile.exists => (cLast \in Procs /\ histFile.urls \subseteq cMem[cLast])
    /\ \A u \in AllUrls : fetched[u] <= Cardinality(Procs)

\* Both processes are done: U1 was fetched by both, and U3, which process 1
\* downloaded and recorded, is not in the history file process 2 wrote last.
C20_Witness ==
    /\ \A p \in Procs : cPc[p] = "done"
    /\ fetched[U1] = 2
    /\ U3 \in cMem[1] /\ fetched[U3] = 1
    /\ histFile.exists /\ U3 \notin histFile.urls

(***************************************************************************)
(* C21: between every two consecutive get_feed requests of a student, the  *)
(* first of them successful, the inter-page delay elapses.                 *)
(***************************************************************************)
C21_DelayBetweenRequests ==
    \A s \in StudentIds : \A i \in 1..(Len(feedLog[s]) - 1) :
        feedLog[s][i].res = "ok" =>
            feedLog[s][i + 1].at >= feedLog[s][i].at + SleepSeconds

(***************************************************************************)
(* C22: a download_media call for a url that is in the history while the   *)
(* derived path does not exist returns the derived filename, makes no      *)
(* network call, creates no file and leaves the history, in memory and on  *)
(* disk, as it was.                                                        *)
(***************************************************************************)
C22_HistoryHitStep ==
    (pc = "entry" /\ ei' = ei /\ ri' = ri + 1) =>
        LET entry == EntryOf(feed_data.entries[ei])
            ref == RefsOf(feed_data.entries[ei])[ri]
            name == TimestampedFileName(ref.url, ref.type,
                        ParseEventDate(entry.event_date, clock), clock, hseed)
            exists == \E f \in files : /\ f.student = CurStudent
                                       /\ f.dir = MediaDir(ref.type)
                                       /\ f.name = name
        IN (ref.url \in downloaded_files /\ ~exists) =>
              /\ UNCHANGED <<files, downloaded_files, histFile, fetched, faults,
                             refetched>>
              /\ downloaded_media' =
                    Append(downloaded_media,
                           [filename |-> name, original_url |-> ref.url,
                            type |-> ref.type, url_type |-> ref.url_type])

C22_HistoryMeansDone == [][C22_HistoryHitStep]_vars

\* The media files were deleted between the runs; the second run is handed
\* U1, finds it in the history and returns its filename; no file is back.
C22_Witness ==
    /\ run = 2 /\ files = {} /\ fetched[U1] = 1
    /\ U1 \in downloaded_files /\ histFile.urls = downloaded_files
    /\ \E c \in calls : c.run = 2 /\ c.url = U1 /\ c.hit /\ c.student = 1

(***************************************************************************)
(* C23: a page with an empty entry list ends the student's pagination      *)
(* without error: control leaves the loop, no later get_feed call is made, *)
(* pages_scraped does not count the empty page and the index holds the     *)
(* entries of the pages before; and when pagination ends on a page whose   *)
(* has_more is false, every entry of that page was processed first.        *)
(***************************************************************************)
PageHandles(s, p) ==
    {[student |-> s, k |-> k] :
        k \in ((p - 1) * PageSize + 1)..Min(p * PageSize, Len(Feed(s)))}

\* The entry was written and appended, or it failed on its own account.
Processed(h) ==
    \/ \E i \in 1..Len(written[h.student]) :
          written[h.student][i].original_data = h
    \/ ActorRaises(EntryOf(h))
    \/ [student |-> h.student, k |-> h.k, what |-> "record"] \in failedOf

C23_EmptyPageStops ==
    /\ \A s \in StudentIds : \A i \in 1..(Len(LoopCalls(s)) - 1) :
          LoopCalls(s)[i].res # "empty"
    /\ (pc \in {"loop", "entry"} /\ LoopCalls(CurStudent) # <<>>) =>
          Last(LoopCalls(CurStudent)).res # "empty"
    /\ \A s \in FinishedStudents :
          (LoopCalls(s) # <<>> /\ Last(LoopCalls(s)).res = "empty") =>
              /\ index[s][1].pages_scraped = Last(LoopCalls(s)).page - 1
              /\ index[s][1].entries = written[s]
              /\ \A h \in UNION {PageHandles(s, p) :
                                   p \in 1..(Last(LoopCalls(s)).page - 1)} :
                    Processed(h)
    /\ \A s \in FinishedStudents \ interrupted :
          (/\ LoopCalls(s) # <<>>
           /\ Last(LoopCalls(s)).res = "ok"
           /\ ~Last(LoopCalls(s)).has_more) =>
              /\ index[s][1].pages_scraped = Last(LoopCalls(s)).page
              /\ \A h \in PageHandles(s, Last(LoopCalls(s)).page) : Processed(h)

\* Page 2 of student 1 came back empty: one page counted, the two entries of
\* page 1 in the index.
C23_Witness ==
    /\ 1 \in FinishedStudents
    /\ Len(LoopCalls(1)) = 2 /\ Last(LoopCalls(1)).res = "empty"
    /\ index[1][1].pages_scraped = 1
    /\ Len(index[1][1].entries) = 2

(***************************************************************************)
(* C24: an entry whose actor, first name or last name is absent (the key   *)
(* is missing or its value is null) is still persisted: its record file    *)
(* carries the literal "unknown" in place of the absent name and the entry *)
(* is among the entries written for the index.  Entries are processed in   *)
(* feed order, so every entry before a written one was processed.          *)
(***************************************************************************)
AbsentName(name) == name \in {"#missing", "#null"}

C24_UnknownActorPersisted ==
    \A s \in StudentIds : \A i \in 1..Len(written[s]) :
        \A k \in 1..written[s][i].original_data.k :
            LET entry == Feed(s)[k]
            IN (/\ \/ entry.actor.json # "obj"
                   \/ AbsentName(entry.actor.first_name)
                   \/ AbsentName(entry.actor.last_name)
                /\ [student |-> s, k |-> k, what |-> "record"] \notin failedOf) =>
                   \E j \in 1..Len(written[s]) :
                      /\ written[s][j].original_data = [student |-> s, k |-> k]
                      /\ \E r \in records :
                            /\ r.student = s /\ r.entry = written[s][j]
                            /\ AbsentName(entry.actor.first_name) =>
                                  r.name.first = "unknown"
                            /\ AbsentName(entry.actor.last_name) =>
                                  r.name.last = "unknown"

(***************************************************************************)
(* C25: within one student's run every feed page number is requested at    *)
(* most once, and the number of get_feed calls is the number of pages      *)
(* counted plus at most one final page that failed or was empty.           *)
(***************************************************************************)
C25_EachPageOnce ==
    /\ \A s \in StudentIds : \A i, j \in 1..Len(feedLog[s]) :
          i # j => feedLog[s][i].page # feedLog[s][j].page
    /\ \A s \in FinishedStudents \ interrupted :
          FreshIndex(s) =>
              /\ Len(feedLog[s]) >= index[s][1].pages_scraped
              /\ Len(feedLog[s]) <= index[s][1].pages_scraped + 1

(***************************************************************************)
(* C26: every URL in the download history, in memory and in                *)
(* download_history.json, was fetched successfully at some earlier time;   *)
(* in particular two different URLs that derive the same destination path  *)
(* are each fetched.                                                       *)
(***************************************************************************)
C26_HistoryMeansFetched ==
    \A u \in downloaded_files \cup histFile.urls : fetched[u] >= 1

(***************************************************************************)
(* C27: every download record inside a persisted processed entry names a   *)
(* local file that exists, at the time the entry is written, in the        *)
(* student's media directory for that kind of reference; also when the URL *)
(* was first downloaded for another student or under another timestamp and *)
(* the call was answered from the download history.                        *)
(***************************************************************************)
C27_WriteStep ==
    (pc = "entry" /\ Len(written'[CurStudent]) = Len(written[CurStudent]) + 1) =>
        LET w == Last(written'[CurStudent])
        IN \A i \in 1..Len(w.downloaded_media) :
              \E f \in files :
                 /\ f.student = CurStudent
                 /\ f.dir = MediaDir(w.downloaded_media[i].type)
                 /\ f.name = w.downloaded_media[i].filename

C27_RecordsNameLocalFiles == [][C27_WriteStep]_vars

(***************************************************************************)
(* C28: an incomplete file left behind by a failed or interrupted fetch is *)
(* never taken for a finished download: a later download_media call for    *)
(* the same reference does not return from the "already exists" or         *)
(* "already downloaded" branches, it fetches again.                        *)
(***************************************************************************)
C28_HitStep ==
    (pc = "entry" /\ ei' = ei /\ ri' = ri + 1) =>
        LET entry == EntryOf(feed_data.entries[ei])
            ref == RefsOf(feed_data.entries[ei])[ri]
            name == TimestampedFileName(ref.url, ref.type,
                                        ParseEventDate(entry.event_date, clock),
                                        clock, hseed)
        IN (\E f \in files : /\ f.student = CurStudent
                             /\ f.dir = MediaDir(ref.type)
                             /\ f.name = name
                             /\ f.state = "partial") =>
              \/ fetched'[ref.url] = fetched[ref.url] + 1
              \/ faults' = faults + 1

C28_PartialFileRefetched == [][C28_HitStep]_vars

(***************************************************************************)
(* C29: the persisted download history never shrinks: every URL once in    *)
(* download_history.json stays in it, also across a run that starts when   *)
(* the file cannot be read.                                                *)
(***************************************************************************)
C29_HistoryFileGrows == [][histFile.urls \subseteq histFile'.urls]_vars

(***************************************************************************)
(* C30: within one student's run two distinct entries are never written to *)
(* the same record file, also when both come without a server id and share *)
(* timestamp and actor: after both are processed each has its record.      *)
(***************************************************************************)
C30_DistinctRecordFiles ==
    pout.kind = "ids" =>
        \A e \in {pin.first, pin.second} : \E r \in pout.records : r.entry = e

====
